---- MODULE Spec2Model ----
(***************************************************************************)
(* A model of the raw-to-native exporter of FBX2Cross (src/src/Raw2Cross.cpp): *)
(* the binary mesh writer (ExportMesh), the material writer (ExportMaterial) *)
(* and the scene writer (ExportMeshXML).                                   *)
(*                                                                         *)
(* A file is a sequence of written items [f, sz, v, at]: the field written, *)
(* its size in bytes, its value, and the array element (or submesh) it was *)
(* written for.  Floats are modelled by integers; FLT_MAX is the largest.  *)
(***************************************************************************)
EXTENDS Integers, Sequences, FiniteSets, TLC

VARIABLES
    rawModel,           \* the RawModel handed to the exporter (read-only)
    rawMaterialModels,  \* its material partitions, in partition order
    env,                \* the file system: which files can be created
    pcMesh,             \* position of ExportMesh
    file,               \* the items written to the .mesh file so far
    vertices,           \* ExportMeshData: std::vector<RawVertex> vertices
    indices,            \* ExportMeshData: std::vector<unsigned int> indices
    indexMesh,          \* ExportMeshData: the loop counter of the partition loop
    bases,              \* ExportMeshData: (baseIndex, baseVertex) of every iteration so far
    meshResult,         \* what ExportMesh returned: "none" before it returns
    materialFiles,      \* the .material files on disk, by material index
    materialResult,     \* what ExportMaterial(path, model) returned
    pcScene,            \* position of ExportMeshXML
    sceneFile,          \* the scene document on disk
    sceneResult         \* what ExportMeshXML returned

meshVars == <<pcMesh, file, vertices, indices, indexMesh, bases, meshResult>>
materialVars == <<materialFiles, materialResult>>
sceneVars == <<pcScene, sceneFile, sceneResult>>
vars == <<rawModel, rawMaterialModels, env, meshVars, materialVars, sceneVars>>

----------------------------------------------------------------------------
(* Bounds of the model. *)
MaxParts == 2
MaxVerts == 2
MaxTris == 1

(* Program constants.  Every count and size of the model stays far below  *)
(* 2^32, so unsigned 32-bit arithmetic is plain arithmetic here.          *)
FLT_MAX == 1000
MAX_NAME == 260
SizeofFloat == 4
SizeofUInt == 4

RECURSIVE SumSz(_)
SumSz(items) == IF items = <<>> THEN 0 ELSE Head(items).sz + SumSz(Tail(items))

RECURSIVE Concat(_)
Concat(seqs) == IF seqs = <<>> THEN <<>> ELSE Head(seqs) \o Concat(Tail(seqs))

W(f, sz, v, at) == [f |-> f, sz |-> sz, v |-> v, at |-> at]

----------------------------------------------------------------------------
(* The raw model query facade, as far as the exporter uses it. *)
AttributeSet == {"POSITION", "NORMAL", "BINORMAL", "COLOR", "UV0", "UV1",
                 "JOINT_INDICES", "JOINT_WEIGHTS"}

GetVertexAttributes(model) == model.format
GetVertexCount(model) == Len(model.vertices)
GetVertex(model, index) == model.vertices[index + 1]
GetTriangleCount(model) == Len(model.triangles)
GetTriangle(model, index) == model.triangles[index + 1]
GetSurface(model, index) == model.surfaces[index + 1]
GetMaterial(model, index) == model.materials[index + 1]
GetMaterialCount(model) == Len(model.materials)
GetTexture(model, index) == model.textures[index + 1]
GetNode(model, index) == model.nodes[index + 1]
GetRootNode(model) == model.rootId

(* enum RawTextureUsage, in declaration order. *)
RawTextureUsage ==
    {"AMBIENT", "DIFFUSE", "NORMAL", "SPECULAR", "SHININESS", "EMISSIVE",
     "REFLECTION", "ALBEDO", "OCCLUSION", "ROUGHNESS", "METALLIC"}

(* The index of the node, or of the surface, with the id: -1 when there is none. *)
IndexById(items, id) ==
    IF \E i \in 1..Len(items) : items[i].id = id
      THEN (CHOOSE i \in 1..Len(items) :
                /\ items[i].id = id
                /\ \A j \in 1..(i - 1) : items[j].id # id) - 1
      ELSE -1
GetNodeById(model, id) == IndexById(model.nodes, id)
GetSurfaceById(model, id) == IndexById(model.surfaces, id)

(* A file that was not written. *)
NoFile == [written |-> FALSE]

----------------------------------------------------------------------------
(* GetVertexSize: the packed size of one vertex. *)
GetVertexSizeNoColor(format) ==
    (  (IF "POSITION" \in format THEN SizeofFloat * 3 ELSE 0)
        + (IF "NORMAL" \in format THEN SizeofFloat * 3 ELSE 0)
        + (IF "BINORMAL" \in format THEN SizeofFloat * 3 ELSE 0)
        + (IF "COLOR" \in format THEN SizeofFloat * 4 ELSE 0)
        + (IF "UV0" \in format THEN SizeofFloat * 2 ELSE 0)
        + (IF "UV1" \in format THEN SizeofFloat * 2 ELSE 0)
        + (IF "JOINT_INDICES" \in format THEN SizeofFloat * 4 ELSE 0)
        + (IF "JOINT_WEIGHTS" \in format THEN SizeofFloat * 4 ELSE 0))

GetVertexSize(format) ==
    (  (IF "POSITION" \in format THEN SizeofFloat * 3 ELSE 0)
        + (IF "NORMAL" \in format THEN SizeofFloat * 3 ELSE 0)
        + (IF "BINORMAL" \in format THEN SizeofFloat * 3 ELSE 0)
        + (IF "COLOR" \in format THEN SizeofFloat * 3 ELSE 0)
        + (IF "UV0" \in format THEN SizeofFloat * 2 ELSE 0)
        + (IF "UV1" \in format THEN SizeofFloat * 2 ELSE 0)
        + (IF "JOINT_INDICES" \in format THEN SizeofFloat * 4 ELSE 0)
        + (IF "JOINT_WEIGHTS" \in format THEN SizeofFloat * 4 ELSE 0))

----------------------------------------------------------------------------
(* ExportMeshHeader. *)

(* struct SubMeshHeader, in declaration order: no padding, 260 = 65 * 4. *)
SubMeshHeaderLayout ==
    << <<"szName", MAX_NAME>>,
       <<"minx", SizeofFloat>>, <<"miny", SizeofFloat>>, <<"minz", SizeofFloat>>,
       <<"maxx", SizeofFloat>>, <<"maxy", SizeofFloat>>, <<"maxz", SizeofFloat>>,
       <<"baseVertex", SizeofUInt>>, <<"firstIndex", SizeofUInt>>,
       <<"indexCount", SizeofUInt>> >>

(* struct MeshHeader up to subMeshHeaders. *)
MeshHeaderLayout ==
    << <<"format", SizeofUInt>>, <<"numSubMeshs", SizeofUInt>>,
       <<"indexBufferSize", SizeofUInt>>, <<"indexBufferOffset", SizeofUInt>>,
       <<"vertexBufferSize", SizeofUInt>>, <<"vertexBufferOffset", SizeofUInt>> >>

RECURSIVE LayoutSize(_)
LayoutSize(layout) ==
    IF layout = <<>> THEN 0 ELSE Head(layout)[2] + LayoutSize(Tail(layout))

SizeofSubMeshHeader == LayoutSize(SubMeshHeaderLayout)
OffsetofSubMeshHeaders == LayoutSize(MeshHeaderLayout)

SubMeshHeaderInit ==
    [szName |-> "",
     minx |-> FLT_MAX, miny |-> FLT_MAX, minz |-> FLT_MAX,
     maxx |-> 0 - FLT_MAX, maxy |-> 0 - FLT_MAX, maxz |-> 0 - FLT_MAX,
     baseVertex |-> 0, firstIndex |-> 0, indexCount |-> 0]

MeshHeaderInit ==
    [format |-> {}, numSubMeshs |-> 0,
     indexBufferSize |-> 0, indexBufferOffset |-> 0,
     vertexBufferSize |-> 0, vertexBufferOffset |-> 0,
     subMeshHeaders |-> <<>>]

(* One pass of the vertex loop: grow the box to hold the vertex. *)
GrowBoundsNoMax(h, vertex) ==
    [h EXCEPT
        !.minx = IF @ > vertex.position[1] THEN vertex.position[1] ELSE @,
        !.miny = IF @ > vertex.position[2] THEN vertex.position[2] ELSE @,
        !.minz = IF @ > vertex.position[3] THEN vertex.position[3] ELSE @,
        !.maxx = IF @ < vertex.position[1] THEN vertex.position[1] ELSE @,
        !.maxy = IF @ < vertex.position[2] THEN vertex.position[2] ELSE @,
        !.maxz = IF @ < vertex.position[2] THEN vertex.position[2] ELSE @]

GrowBounds(h, vertex) ==
    [h EXCEPT
        !.minx = IF @ > vertex.position[1] THEN vertex.position[1] ELSE @,
        !.miny = IF @ > vertex.position[2] THEN vertex.position[2] ELSE @,
        !.minz = IF @ > vertex.position[3] THEN vertex.position[3] ELSE @,
        !.maxx = IF @ < vertex.position[1] THEN vertex.position[1] ELSE @,
        !.maxy = IF @ < vertex.position[2] THEN vertex.position[2] ELSE @,
        !.maxz = IF @ < vertex.position[3] THEN vertex.position[3] ELSE @]

RECURSIVE BoundsLoop(_, _, _)
BoundsLoop(h, model, n) ==
    IF n = 0 THEN h
    ELSE GrowBounds(BoundsLoop(h, model, n - 1), GetVertex(model, n - 1))

(* One pass of the partition loop of ExportMeshHeader; s holds meshHeader, *)
(* numIndex and numVertex.                                                 *)
HeaderIterRestart(s, model, k) ==
    LET tc == GetTriangleCount(model)
        vc == GetVertexCount(model)
        h == [BoundsLoop(s.meshHeader.subMeshHeaders[k + 1], model, vc) EXCEPT
                !.baseVertex = 0,
                !.firstIndex = 0,
                !.indexCount = (tc * 3),
                !.szName = GetSurface(model, 0).name]
    IN  [meshHeader |-> [s.meshHeader EXCEPT
                !.subMeshHeaders[k + 1] = h,
                !.indexBufferSize = (@ + tc * 3 * SizeofUInt),
                !.vertexBufferSize = (@ + vc * GetVertexSize(s.meshHeader.format))],
         numIndex |-> (s.numIndex + tc * 3),
         numVertex |-> (s.numVertex + vc)]

HeaderIterBaseVertex(s, model, k) ==
    LET tc == GetTriangleCount(model)
        vc == GetVertexCount(model)
        h == [BoundsLoop(s.meshHeader.subMeshHeaders[k + 1], model, vc) EXCEPT
                !.baseVertex = s.numVertex,
                !.firstIndex = s.numIndex,
                !.indexCount = (tc * 3),
                !.szName = GetSurface(model, 0).name]
    IN  [meshHeader |-> [s.meshHeader EXCEPT
                !.subMeshHeaders[k + 1] = h,
                !.indexBufferSize = (@ + tc * 3 * SizeofUInt),
                !.vertexBufferSize = (@ + vc * GetVertexSize(s.meshHeader.format))],
         numIndex |-> (s.numIndex + tc * 3),
         numVertex |-> (s.numVertex + vc)]

HeaderIter(s, model, k) ==
    LET tc == GetTriangleCount(model)
        vc == GetVertexCount(model)
        h == [BoundsLoop(s.meshHeader.subMeshHeaders[k + 1], model, vc) EXCEPT
                !.baseVertex = 0,
                !.firstIndex = s.numIndex,
                !.indexCount = (tc * 3),
                !.szName = GetSurface(model, 0).name]
    IN  [meshHeader |-> [s.meshHeader EXCEPT
                !.subMeshHeaders[k + 1] = h,
                !.indexBufferSize = (@ + tc * 3 * SizeofUInt),
                !.vertexBufferSize = (@ + vc * GetVertexSize(s.meshHeader.format))],
         numIndex |-> (s.numIndex + tc * 3),
         numVertex |-> (s.numVertex + vc)]

RECURSIVE HeaderLoop(_, _, _)
HeaderLoop(s, models, n) ==
    IF n = 0 THEN s
    ELSE HeaderIter(HeaderLoop(s, models, n - 1), models[n], n - 1)

(* baseOffset: where the index block begins. *)
BaseOffsetNoName(n) == (OffsetofSubMeshHeaders + (SizeofSubMeshHeader - MAX_NAME) * n)

BaseOffset(n) == (OffsetofSubMeshHeaders + SizeofSubMeshHeader * n)

(* The header as ExportMeshHeader has it when it starts writing. *)
BuildMeshHeader(model, models) ==
    LET n == Len(models)
        start == [meshHeader |-> [MeshHeaderInit EXCEPT
                        !.format = GetVertexAttributes(model),
                        !.numSubMeshs = (n),
                        !.subMeshHeaders = [k \in 1..n |-> SubMeshHeaderInit]],
                  numIndex |-> 0, numVertex |-> 0]
        mh == HeaderLoop(start, models, n).meshHeader
    IN  [mh EXCEPT !.indexBufferOffset = BaseOffset(n),
                   !.vertexBufferOffset = (BaseOffset(n) + mh.indexBufferSize)]

(* fwrite of a struct: its fields as they lie in memory. *)
WriteStruct(layout, rec, at) ==
    [i \in 1..Len(layout) |-> W(layout[i][1], layout[i][2], rec[layout[i][1]], at)]

WriteMeshHeader(mh) ==
    WriteStruct(MeshHeaderLayout, mh, -1)
    \o Concat([k \in 1..Len(mh.subMeshHeaders) |->
                 WriteStruct(SubMeshHeaderLayout, mh.subMeshHeaders[k], k - 1)])

----------------------------------------------------------------------------
(* ExportMeshData. *)

(* PVRTGeometrySort on one partition's slice: vertex i moves to place      *)
(* perm[i], every index follows its vertex, triangles are reordered by     *)
(* order.  Places are 1-based here, indices 0-based as in the code.        *)
PVRTGeometrySort(vs, tris, perm, order) ==
    [vertices |-> [j \in 1..Len(vs) |->
                      vs[CHOOSE i \in 1..Len(vs) : perm[i] = j]],
     triangles |-> [t \in 1..Len(tris) |->
                      [c \in 1..3 |-> perm[tris[order[t]][c] + 1] - 1]]]

Flatten(tris) == Concat([t \in 1..Len(tris) |-> tris[t]])

(* Lines 221-225: make the partition's indices global. *)
OffsetIndicesNone(local, baseVertex) == local

OffsetIndices(local, baseVertex) ==
    [i \in 1..Len(local) |-> (local[i] + baseVertex)]

(* Lines 232-274: the items written for vertices[index]. *)
WriteVertex(v, format, index) ==
      (IF "POSITION" \in format
         THEN << W("position.x", SizeofFloat, v.position[1], index),
                 W("position.y", SizeofFloat, v.position[2], index),
                 W("position.z", SizeofFloat, v.position[3], index) >>
         ELSE <<>>)
   \o (IF "NORMAL" \in format
         THEN << W("normal.x", SizeofFloat, v.id, index),
                 W("normal.y", SizeofFloat, v.id, index),
                 W("normal.z", SizeofFloat, v.id, index) >>
         ELSE <<>>)
   \o (IF "BINORMAL" \in format
         THEN << W("binormal.x", SizeofFloat, v.id, index),
                 W("binormal.y", SizeofFloat, v.id, index),
                 W("binormal.z", SizeofFloat, v.id, index) >>
         ELSE <<>>)
   \o (IF "COLOR" \in format
         THEN << W("color.x", SizeofFloat, v.id, index),
                 W("color.y", SizeofFloat, v.id, index),
                 W("color.z", SizeofFloat, v.id, index) >>
         ELSE <<>>)
   \o (IF "UV0" \in format
         THEN << W("uv0.x", SizeofFloat, v.id, index),
                 W("uv0.y", SizeofFloat, v.id, index) >>
         ELSE <<>>)
   \o (IF "UV1" \in format
         THEN << W("uv1.x", SizeofFloat, v.id, index),
                 W("uv1.y", SizeofFloat, v.id, index) >>
         ELSE <<>>)
   \o (IF "JOINT_INDICES" \in format
         THEN << W("jointIndices.x", SizeofFloat, v.id, index),
                 W("jointIndices.y", SizeofFloat, v.id, index),
                 W("jointIndices.z", SizeofFloat, v.id, index),
                 W("jointIndices.w", SizeofFloat, v.id, index) >>
         ELSE <<>>)
   \o (IF "JOINT_WEIGHTS" \in format
         THEN << W("jointWeights.x", SizeofFloat, v.id, index),
                 W("jointWeights.y", SizeofFloat, v.id, index),
                 W("jointWeights.z", SizeofFloat, v.id, index),
                 W("jointWeights.w", SizeofFloat, v.id, index) >>
         ELSE <<>>)

WriteIndices(is) == [i \in 1..Len(is) |-> W("index", SizeofUInt, is[i], i - 1)]

WriteVertices(vs, format) ==
    Concat([i \in 1..Len(vs) |-> WriteVertex(vs[i], format, i - 1)])

----------------------------------------------------------------------------
(* ExportMesh, in its steps. *)

(* fopen(szFileName, "wb"): on failure the body is skipped and true is returned. *)
ExportMeshOpen ==
    /\ pcMesh = "idle"
    /\ IF env.meshOpens
         THEN /\ pcMesh' = "header"
              /\ meshResult' = meshResult
         ELSE /\ pcMesh' = "done"
              /\ meshResult' = "true"
    /\ UNCHANGED <<materialVars, sceneVars, rawModel, rawMaterialModels, env, file, vertices, indices,
                   indexMesh, bases>>

ExportMeshHeader ==
    /\ pcMesh = "header"
    /\ file' = file \o WriteMeshHeader(BuildMeshHeader(rawModel, rawMaterialModels))
    /\ pcMesh' = "data"
    /\ UNCHANGED <<materialVars, sceneVars, rawModel, rawMaterialModels, env, vertices, indices,
                   indexMesh, bases, meshResult>>

(* One iteration of the partition loop of ExportMeshData (lines 196-226). *)
ExportMeshDataSubMesh ==
    /\ pcMesh = "data"
    /\ indexMesh < Len(rawMaterialModels)
    /\ LET model == rawMaterialModels[indexMesh + 1]
           baseIndex == Len(indices)
           baseVertex == Len(vertices)
           vc == GetVertexCount(model)
           tc == GetTriangleCount(model)
       IN  \E perm \in Permutations(1..vc), order \in Permutations(1..tc) :
             LET sorted == PVRTGeometrySort(model.vertices, model.triangles, perm, order)
             IN  /\ vertices' = vertices \o sorted.vertices
                 /\ indices' = indices
                        \o OffsetIndices(Flatten(sorted.triangles), baseVertex)
                 /\ bases' = Append(bases, [baseIndex |-> baseIndex,
                                            baseVertex |-> baseVertex])
    /\ indexMesh' = indexMesh + 1
    /\ UNCHANGED <<materialVars, sceneVars, rawModel, rawMaterialModels, env, pcMesh, file, meshResult>>

(* &vertices[baseVertex] or &indices[baseIndex] of a partition without     *)
(* vertices or triangles is a subscript past the end: a checked vector     *)
(* aborts there.                                                           *)
ExportMeshDataAbort ==
    /\ pcMesh = "data"
    /\ indexMesh < Len(rawMaterialModels)
    /\ LET model == rawMaterialModels[indexMesh + 1]
       IN  GetVertexCount(model) = 0 \/ GetTriangleCount(model) = 0
    /\ pcMesh' = "aborted"
    /\ UNCHANGED <<materialVars, sceneVars, rawModel, rawMaterialModels, env, file, vertices, indices,
                   indexMesh, bases, meshResult>>

(* Lines 228-276, then fclose and return true. *)
ExportMeshDataWrite ==
    /\ pcMesh = "data"
    /\ indexMesh = Len(rawMaterialModels)
    /\ file' = file \o WriteIndices(indices)
                    \o WriteVertices(vertices, GetVertexAttributes(rawModel))
    /\ pcMesh' = "done"
    /\ meshResult' = "true"
    /\ UNCHANGED <<materialVars, sceneVars, rawModel, rawMaterialModels, env, vertices, indices,
                   indexMesh, bases>>

----------------------------------------------------------------------------
(* XML documents: an element has a tag, attributes in the order they were  *)
(* set, and children in the order they were linked.                        *)
Element(tag, attrs, children) == [tag |-> tag, attrs |-> attrs, children |-> children]

HasAttribute(e, name) == \E i \in 1..Len(e.attrs) : e.attrs[i][1] = name
Attribute(e, name) ==
    e.attrs[CHOOSE i \in 1..Len(e.attrs) : e.attrs[i][1] = name][2]
ChildrenTagged(e, tag) == SelectSeq(e.children, LAMBDA c : c.tag = tag)

(* Strings the code builds from parts are sequences of the parts; an empty *)
(* part adds nothing.                                                      *)
StrCat(parts) == SelectSeq(parts, LAMBDA p : p # "")

(* sprintf(szFileName, "%s%s.material", szPathName, rawMaterial.name). *)
GetMaterialFileName(szPathName, rawMaterial) ==
    StrCat(<<szPathName, rawMaterial.name, ".material">>)

----------------------------------------------------------------------------
(* splitfilename: a name is a sequence of characters.  The names of the    *)
(* model do not end in a separator.                                        *)
IsSeparator(c) == c = "/" \/ c = "\\"

RECURSIVE SkipSeparators(_, _)
SkipSeparators(name, p) ==
    IF p <= Len(name) /\ IsSeparator(name[p]) THEN SkipSeparators(name, p + 1) ELSE p

(* Lines 35-43: base ends up after the last run of separators. *)
RECURSIVE ScanBase(_, _, _)
ScanBase(name, p, base) ==
    IF p > Len(name) THEN base
    ELSE IF IsSeparator(name[p])
           THEN LET q == SkipSeparators(name, p + 1) IN ScanBase(name, q + 1, q)
           ELSE ScanBase(name, p + 1, base)

(* Line 46: back from the end to the last '.', or to base. *)
RECURSIVE ScanDot(_, _, _)
ScanDot(name, p, base) ==
    IF p = base \/ (p <= Len(name) /\ name[p] = ".") THEN p
    ELSE ScanDot(name, p - 1, base)

splitfilename(name) ==
    LET base == ScanBase(name, 1, 1)
        dot == ScanDot(name, Len(name) + 1, base)
        p == IF dot = base /\ ~(base <= Len(name) /\ name[base] = ".")
               THEN Len(name) + 1 ELSE dot
    IN  [fname |-> SubSeq(name, base, p - 1), ext |-> SubSeq(name, p, Len(name))]

----------------------------------------------------------------------------
(* The material writer. *)

DefineNames ==
    << <<"POSITION", "VERTEX_ATTRIBUTE_POSITION">>,
       <<"NORMAL", "VERTEX_ATTRIBUTE_NORMAL">>,
       <<"BINORMAL", "VERTEX_ATTRIBUTE_BINORMAL">>,
       <<"COLOR", "VERTEX_ATTRIBUTE_COLOR">>,
       <<"UV0", "VERTEX_ATTRIBUTE_TEXCOORD0">>,
       <<"UV1", "VERTEX_ATTRIBUTE_TEXCOORD1">>,
       <<"JOINT_INDICES", "VERTEX_ATTRIBUTE_INDICES">>,
       <<"JOINT_WEIGHTS", "VERTEX_ATTRIBUTE_WEIGHTS">> >>

Define(name) == Element("Define", << <<"name", name>> >>, <<>>)

VertexDefines(format) ==
    Concat([i \in 1..Len(DefineNames) |->
              IF DefineNames[i][1] \in format
                THEN << Define(DefineNames[i][2]) >> ELSE <<>>])
    \o << Define("INSTANCE_ATTRIBUTE_TRANSFORM") >>

(* Lines 364-367: the slot whose texture is written, "NONE" when the       *)
(* condition of line 364 fails.                                            *)
TextureUsageDiffuseLast(material) ==
    LET none == "NONE"
        albedo == IF material.textures["ALBEDO"] >= 0 THEN "ALBEDO" ELSE none
    IN  IF material.textures["DIFFUSE"] >= 0 THEN "DIFFUSE" ELSE albedo

TextureUsage(material) ==
    LET none == "NONE"
        diffuse == IF material.textures["DIFFUSE"] >= 0 THEN "DIFFUSE" ELSE none
    IN  IF material.textures["ALBEDO"] >= 0 THEN "ALBEDO" ELSE diffuse

Texture2D(material, model) ==
    LET indexTexture == TextureUsage(material)
        split == splitfilename(GetTexture(model, material.textures[indexTexture]).fileName)
    IN  Element("Texture2D",
                << <<"name", "texAlbedo">>,
                   <<"file_name", split.fname \o split.ext>>,
                   <<"min_filter", "GFX_NEAREST">>,
                   <<"mag_filter", "GFX_LINEAR">>,
                   <<"mipmap_mode", "GFX_NEAREST">>,
                   <<"address_mode", "GFX_CLAMP_TO_EDGE">> >>,
                <<>>)

(* The document that the static ExportMaterial builds (lines 292-390). *)
MaterialDocument(material, model) ==
    LET vertex == Element("Vertex", << <<"file_name", "Default.glsl">> >>,
                          VertexDefines(GetVertexAttributes(model)))
        fragment == Element("Fragment", << <<"file_name", "Default.glsl">> >>, <<>>)
        pipeline == Element("Pipeline", << <<"render_pass", "Default">> >>,
                            <<vertex, fragment>>)
        pass == Element("Pass", << <<"name", "Default">> >>,
                        <<pipeline>>
                        \o (IF TextureUsage(material) # "NONE"
                              THEN << Texture2D(material, model) >> ELSE <<>>))
    IN  Element("Material", <<>>, <<pass>>)

(* ExportMaterial(szPathName, rawModel): one file per material; what       *)
(* SaveFile returns is dropped and true is returned.                       *)
ExportMaterial ==
    /\ materialResult = "none"
    /\ \E szPathName \in {"out/"} :
         materialFiles' =
            [i \in 1..GetMaterialCount(rawModel) |->
                IF i \in env.materialFails THEN NoFile
                ELSE [written |-> TRUE,
                      name |-> GetMaterialFileName(szPathName, GetMaterial(rawModel, i - 1)),
                      doc |-> MaterialDocument(GetMaterial(rawModel, i - 1), rawModel)]]
    /\ materialResult' = "true"
    /\ UNCHANGED <<rawModel, rawMaterialModels, env, meshVars, sceneVars>>

----------------------------------------------------------------------------
(* The scene writer.  Floats are integers in units of 0.00001. *)
FloatOne == 100000
Tolerance == 10

Fabs(x) == IF x < 0 THEN 0 - x ELSE x

StrStr(name, check) ==
    \E i \in 1..(Len(name) - Len(check) + 1) :
        SubSeq(name, i, i + Len(check) - 1) = check

LODGroupName == <<"_", "L", "O", "D", "G", "r", "o", "u", "p">>
LODNames ==
    [k \in 1..8 |-> <<"_", "L", "O", "D", <<"0", "1", "2", "3", "4", "5", "6", "7">>[k]>>]

IsNameLODGroup(szName) == StrStr(szName, LODGroupName)

(* IsNodeLODGrpup without its test of the children's rotation. *)
IsNodeLODGrpupNoRotation(node, model) ==
    /\ IsNameLODGroup(node.name)
    /\ node.childIds # <<>>
    /\ \A indexChild \in 1..Len(node.childIds) :
         LET childNode == GetNode(model, GetNodeById(model, node.childIds[indexChild]))
         IN  /\ childNode.childIds = <<>>
             /\ \A a \in 1..3 : ~(Fabs(childNode.scale[a] - FloatOne) > Tolerance)
             /\ \A a \in 1..3 : ~(Fabs(childNode.translation[a] - 0) > Tolerance)

IsNodeLODGrpup(node, model) ==
    /\ IsNameLODGroup(node.name)
    /\ node.childIds # <<>>
    /\ \A indexChild \in 1..Len(node.childIds) :
         LET childNode == GetNode(model, GetNodeById(model, node.childIds[indexChild]))
         IN  /\ childNode.childIds = <<>>
             /\ \A a \in 1..3 : ~(Fabs(childNode.scale[a] - FloatOne) > Tolerance)
             /\ \A a \in 1..3 : ~(Fabs(childNode.translation[a] - 0) > Tolerance)
             /\ ~(Fabs(childNode.rotation[1] - FloatOne) > Tolerance)
             /\ \A a \in 2..4 : ~(Fabs(childNode.rotation[a] - 0) > Tolerance)

(* GetLODIndex that keeps the last of the names it finds. *)
GetLODIndexLast(szName) ==
    IF \E k \in 1..8 : StrStr(szName, LODNames[k])
      THEN (CHOOSE k \in 1..8 :
                /\ StrStr(szName, LODNames[k])
                /\ \A j \in (k + 1)..8 : ~StrStr(szName, LODNames[j])) - 1
      ELSE -1

GetLODIndex(szName) ==
    IF \E k \in 1..8 : StrStr(szName, LODNames[k])
      THEN (CHOOSE k \in 1..8 :
                /\ StrStr(szName, LODNames[k])
                /\ \A j \in 1..(k - 1) : ~StrStr(szName, LODNames[j])) - 1
      ELSE -1

(* std::unordered_map::operator[]: a key that is absent reads as the       *)
(* value-initialized value.                                                *)
MapGet(map, key, default) == IF key \in DOMAIN map THEN map[key] ELSE default

(* Lines 521-525: a later partition with the same surface id overwrites. *)
LastWith(models, id) ==
    CHOOSE k \in 1..Len(models) :
        /\ GetSurface(models[k], 0).id = id
        /\ \A j \in (k + 1)..Len(models) : GetSurface(models[j], 0).id # id

SurfaceIdsOf(models) == { GetSurface(models[k], 0).id : k \in 1..Len(models) }

SurfaceMeshs(models) ==
    [id \in SurfaceIdsOf(models) |-> LastWith(models, id) - 1]
SurfaceMaterials(models) ==
    [id \in SurfaceIdsOf(models) |->
        GetMaterialFileName("", GetMaterial(models[LastWith(models, id)], 0))]

(* surfaces[-1] is a read before the array: what it yields is not defined. *)
OutOfBounds == "<out of bounds>"

SurfaceNameOf(model, id) ==
    LET index == GetSurfaceById(model, id)
    IN  IF index >= 0 THEN GetSurface(model, index).name ELSE OutOfBounds

ExportNodeDraw(node, model, surfaceMeshs, surfaceMaterials, lod) ==
    IF node.surfaceId # 0
      THEN << Element("Draw",
                << <<"index", MapGet(surfaceMeshs, node.surfaceId, 0)>>,
                   <<"name", SurfaceNameOf(model, node.surfaceId)>>,
                   <<"material", MapGet(surfaceMaterials, node.surfaceId, <<>>)>> >>
                \o (IF lod >= 0 THEN << <<"lod", lod>> >> ELSE <<>>)
                \o << <<"mask", "4294967295">> >>,
                <<>>) >>
      ELSE <<>>

RECURSIVE ExportNode(_, _, _, _)

(* ExportNode that walks the children from the last to the first. *)
ExportNodeReversed(id, model, surfaceMeshs, surfaceMaterials) ==
    LET node == GetNode(model, GetNodeById(model, id))
        attrs == << <<"translation", node.translation>>,
                    <<"rotation", <<node.rotation[2], node.rotation[3],
                                    node.rotation[4], node.rotation[1]>> >>,
                    <<"scale", node.scale>> >>
        own == ExportNodeDraw(node, model, surfaceMeshs, surfaceMaterials, -1)
        n == Len(node.childIds)
        below ==
            IF IsNodeLODGrpup(node, model)
              THEN Concat([indexChild \in 1..n |->
                      LET childNode == GetNode(model,
                                GetNodeById(model, node.childIds[n + 1 - indexChild]))
                      IN  ExportNodeDraw(childNode, model, surfaceMeshs,
                                         surfaceMaterials, GetLODIndex(childNode.name))])
              ELSE [indexChild \in 1..n |->
                      ExportNode(node.childIds[n + 1 - indexChild], model,
                                 surfaceMeshs, surfaceMaterials)]
    IN  Element("Node", attrs, own \o below)

ExportNode(id, model, surfaceMeshs, surfaceMaterials) ==
    LET node == GetNode(model, GetNodeById(model, id))
        attrs == << <<"translation", node.translation>>,
                    <<"rotation", <<node.rotation[2], node.rotation[3],
                                    node.rotation[4], node.rotation[1]>> >>,
                    <<"scale", node.scale>> >>
        own == ExportNodeDraw(node, model, surfaceMeshs, surfaceMaterials, -1)
        below ==
            IF IsNodeLODGrpup(node, model)
              THEN Concat([indexChild \in 1..Len(node.childIds) |->
                      LET childNode == GetNode(model,
                                GetNodeById(model, node.childIds[indexChild]))
                      IN  ExportNodeDraw(childNode, model, surfaceMeshs,
                                         surfaceMaterials, GetLODIndex(childNode.name))])
              ELSE [indexChild \in 1..Len(node.childIds) |->
                      ExportNode(node.childIds[indexChild], model,
                                 surfaceMeshs, surfaceMaterials)]
    IN  Element("Node", attrs, own \o below)

(* The document that ExportMeshXML builds (lines 518-533). *)
SceneDocument(szMeshFileName, model, models) ==
    Element("Mesh", << <<"mesh", szMeshFileName>> >>,
            << ExportNode(GetRootNode(model), model,
                          SurfaceMeshs(models), SurfaceMaterials(models)) >>)

(* Every element of a document, parents before children. *)
RECURSIVE AllElements(_)
AllElements(e) ==
    <<e>> \o Concat([i \in 1..Len(e.children) |-> AllElements(e.children[i])])

ReadsOutOfBounds(doc) ==
    \E i \in 1..Len(AllElements(doc)) :
        /\ AllElements(doc)[i].tag = "Draw"
        /\ Attribute(AllElements(doc)[i], "name") = OutOfBounds

(* ExportMeshXML: what SaveFile returns is dropped and true is returned. *)
ExportMeshXML ==
    /\ pcScene = "idle"
    /\ \E szMeshFileName \in {"Scene.mesh"} :
         sceneFile' =
            IF env.sceneSaves
              THEN [written |-> TRUE,
                    doc |-> SceneDocument(szMeshFileName, rawModel, rawMaterialModels)]
              ELSE NoFile
    /\ pcScene' = "done"
    /\ sceneResult' = "true"
    /\ UNCHANGED <<rawModel, rawMaterialModels, env, meshVars, materialVars>>

(* The read before the surface array may end the process instead. *)
ExportMeshXMLAbort ==
    /\ pcScene = "idle"
    /\ ReadsOutOfBounds(SceneDocument("Scene.mesh", rawModel, rawMaterialModels))
    /\ pcScene' = "aborted"
    /\ UNCHANGED <<rawModel, rawMaterialModels, env, meshVars, materialVars,
                   sceneFile, sceneResult>>

----------------------------------------------------------------------------
(* Inputs. *)

Vertex(position, id) == [position |-> position, id |-> id]

(* A strip of tc triangles over vc vertices that starts at vertex a.  The  *)
(* optimizer renumbers the vertices, so over its outcomes every corner of  *)
(* a triangle takes every index.                                           *)
TriangleStrip(vc, tc, a) ==
    [t \in 1..tc |-> <<(a + t - 1) % vc, (a + t) % vc, (a + t + 1) % vc>>]

TriangleStrips(vc) ==
    { TriangleStrip(vc, tc, 0) : tc \in 0..MaxTris }

SeqsUpTo(S, n) == UNION { [1..k -> S] : k \in 0..n }

NoTextures == [u \in RawTextureUsage |-> -1]

RawModel(format, vs, tris, surfaces, materials) ==
    [format |-> format, vertices |-> vs, triangles |-> tris,
     surfaces |-> surfaces, materials |-> materials,
     textures |-> <<>>, nodes |-> <<>>, rootId |-> 0]

Partition(vs, tris, k) ==
    RawModel({}, vs, tris, << [id |-> k, name |-> "Surface"] >>,
             << [name |-> "Material", textures |-> NoTextures] >>)

(* Partitions whose triangles vary, with one fixed position per vertex. *)
IndexShapes ==
    UNION { { Partition([i \in 1..vc |-> Vertex(<<i, 0 - i, 2 * i>>, i - 1)], tris, 1) :
                tris \in (IF vc = 0 THEN {<<>>} ELSE TriangleStrips(vc)) } :
            vc \in 0..MaxVerts }

(* Partitions whose positions vary, with one triangle if there is a vertex. *)
PositionHigh == <<FLT_MAX, -1, 2>>
PositionLow == <<-2, 0 - FLT_MAX, 1>>

BoundsShapes ==
    UNION { { Partition([i \in 1..vc |-> Vertex(ps[i], i - 1)],
                        IF vc = 0 THEN <<>> ELSE << <<0, 1 % vc, 2 % vc>> >>, 1) :
                ps \in { [i \in 1..vc |-> IF i = j THEN PositionLow ELSE PositionHigh] :
                            j \in 0..vc } } :
            vc \in 0..MaxVerts }

(* Partitions that differ in their vertex count only: all vertices alike. *)
CountShapes ==
    { Partition([i \in 1..vc |-> Vertex(<<1, 1, 1>>, 0)],
                IF vc = 0 THEN <<>> ELSE << <<0, 1 % vc, 2 % vc>> >>, 1) :
        vc \in 0..MaxVerts }

WithFormat(models, format) ==
    [k \in 1..Len(models) |-> [models[k] EXCEPT !.format = format]]

RawModelOf(format) == RawModel(format, <<>>, <<>>, <<>>, <<>>)

MaterialIdle ==
    /\ materialFiles = <<>>
    /\ materialResult = "none"

SceneIdle ==
    /\ pcScene = "idle"
    /\ sceneFile = NoFile
    /\ sceneResult = "none"

MeshIdle ==
    /\ pcMesh = "idle"
    /\ file = <<>>
    /\ vertices = <<>>
    /\ indices = <<>>
    /\ indexMesh = 0
    /\ bases = <<>>
    /\ meshResult = "none"

InitMeshWith(lists, formats) ==
    /\ \E format \in formats, models \in lists :
          /\ rawModel = RawModelOf(format)
          /\ rawMaterialModels = WithFormat(models, format)
    /\ env \in [meshOpens : BOOLEAN, materialFails : {{}}, sceneSaves : {TRUE}]
    /\ MeshIdle
    /\ MaterialIdle
    /\ SceneIdle

(* Three families of inputs: the triangles vary, the positions vary, the   *)
(* attribute bitset varies (over no partition or one).                     *)
InitMesh ==
    \/ InitMeshWith(SeqsUpTo(IndexShapes, MaxParts), {{"POSITION"}})
    \/ InitMeshWith(SeqsUpTo(BoundsShapes, MaxParts),
                    {{"POSITION", "COLOR", "UV1", "JOINT_INDICES"}})
    \/ InitMeshWith({<<>>} \cup { <<shape>> : shape \in CountShapes },
                    SUBSET AttributeSet)

NextMesh ==
    \/ ExportMeshOpen
    \/ ExportMeshHeader
    \/ ExportMeshDataSubMesh
    \/ ExportMeshDataAbort
    \/ ExportMeshDataWrite

SpecMesh == InitMesh /\ [][NextMesh]_vars

----------------------------------------------------------------------------
(* Inputs of the material writer. *)

TextureCatalog ==
    << [fileName |-> <<"d", "/", "a", ".", "p">>],
       [fileName |-> <<"c", ":", "\\", "t", ".", "x", "\\", "b", ".", "j">>] >>

(* DIFFUSE and ALBEDO are empty or one of the two textures, every other    *)
(* slot is empty or the first texture.                                     *)
TextureAssignments ==
    { [u \in RawTextureUsage |->
          IF u \in {"DIFFUSE", "ALBEDO"} THEN two[u]
          ELSE IF u \in on THEN 0 ELSE -1] :
        two \in [{"DIFFUSE", "ALBEDO"} -> {-1, 0, 1}],
        on \in SUBSET (RawTextureUsage \ {"DIFFUSE", "ALBEDO"}) }

MaterialModel(format, materials) ==
    [RawModel(format, <<>>, <<>>, <<>>, materials) EXCEPT !.textures = TextureCatalog]

InitMaterialWith(formats, assignments) ==
    /\ \E format \in formats, textures \in assignments, more \in BOOLEAN :
          rawModel = MaterialModel(format,
                        << [name |-> "Body", textures |-> textures] >>
                        \o (IF more THEN << [name |-> "Glass", textures |-> NoTextures] >>
                                    ELSE <<>>))
    /\ rawMaterialModels = <<>>
    /\ \E fails \in SUBSET (1..GetMaterialCount(rawModel)) :
          env = [meshOpens |-> TRUE, materialFails |-> fails, sceneSaves |-> TRUE]
    /\ MeshIdle
    /\ MaterialIdle
    /\ SceneIdle

InitMaterial ==
    \/ InitMaterialWith({{"POSITION", "UV0"}}, TextureAssignments)
    \/ InitMaterialWith(SUBSET AttributeSet, {NoTextures})

NextMaterial == ExportMaterial

SpecMaterial == InitMaterial /\ [][NextMaterial]_vars

----------------------------------------------------------------------------
(* Inputs of the scene writer. *)
MaxNodes == 3

RECURSIVE SortedSeq(_)
SortedSeq(S) ==
    IF S = {} THEN <<>>
    ELSE LET m == CHOOSE x \in S : \A y \in S : x <= y
         IN  <<m>> \o SortedSeq(S \ {m})

NodeId(i) == 100 + i

(* The trees over n nodes in which node 1 is the root and every parent     *)
(* comes before its children.                                              *)
Trees(n) == { p \in [2..n -> 1..n] : \A i \in 2..n : p[i] < i }

Nodes(n, parent, names, surfaceIds) ==
    [i \in 1..n |->
        [id |-> NodeId(i),
         name |-> names[i],
         childIds |-> SortedSeq({ NodeId(j) : j \in { c \in 2..n : parent[c] = i } }),
         translation |-> <<0, 0, 0>>,
         rotation |-> <<FloatOne, 0, 0, 0>>,
         scale |-> <<FloatOne, FloatOne, FloatOne>>,
         surfaceId |-> surfaceIds[i]]]

SceneSurfaces == << [id |-> 1, name |-> "Body"], [id |-> 2, name |-> "Head"] >>
SceneMaterials ==
    << [name |-> "Skin", textures |-> NoTextures],
       [name |-> "Hair", textures |-> NoTextures] >>

ScenePartition(surface, material) ==
    RawModel({"POSITION"}, <<>>, <<>>, <<surface>>, <<material>>)

(* One partition for each pair of a material and a surface that has        *)
(* triangles, every pair at most once.                                     *)
ScenePartitionLists ==
    { [k \in 1..Len(l) |-> ScenePartition(SceneSurfaces[l[k][1]], SceneMaterials[l[k][2]])] :
        l \in { m \in SeqsUpTo((1..2) \X (1..2), MaxParts) :
                    \A i \in 1..Len(m) : \A j \in 1..Len(m) : i # j => m[i] # m[j] } }

PlainName == <<"N">>
GroupName == <<"G">> \o LODGroupName
LOD1Name == <<"G">> \o LODNames[2]

SceneModel(nodes) ==
    [RawModel({"POSITION"}, <<>>, <<>>, SceneSurfaces, SceneMaterials) EXCEPT
        !.nodes = nodes, !.rootId = NodeId(1)]

InitSceneWith(nameSet, surfaceIdSet, lists, saves) ==
    /\ \E n \in 1..MaxNodes :
         \E parent \in Trees(n), names \in [1..n -> nameSet],
            surfaceIds \in [1..n -> surfaceIdSet] :
              rawModel = SceneModel(Nodes(n, parent, names, surfaceIds))
    /\ rawMaterialModels \in lists
    /\ env \in [meshOpens : {TRUE}, materialFails : {{}}, sceneSaves : saves]
    /\ MeshIdle
    /\ MaterialIdle
    /\ SceneIdle

(* Node i at translation.x = i * 0.00001, within the tolerance of zero, so *)
(* that the Node elements of a document tell their nodes apart.            *)
Numbered(nodes) ==
    [i \in 1..Len(nodes) |-> [nodes[i] EXCEPT !.translation = <<i, 0, 0>>]]

(* One component of the translation, rotation or scale of node k moved by  *)
(* d: onto the tolerance, just past it, or not at all.                     *)
TransformComponents ==
    ({"translation", "scale"} \X (1..3)) \cup ({"rotation"} \X (1..4))
TransformDeltas == {0, Tolerance, 0 - Tolerance, Tolerance + 1, 0 - (Tolerance + 1)}

WithTransform(nodes, k, c, d) ==
    [nodes EXCEPT ![k] =
        [@ EXCEPT ![c[1]] = [@ EXCEPT ![c[2]] = @ + d]]]

TransformedModel(n, parent, names, k, c, d) ==
    SceneModel(WithTransform(
        Numbered(Nodes(n, parent, names, [i \in 1..n |-> 1])), k, c, d))

(* Names of children: no level, levels 1 and 0 (in that order in the      *)
(* name), level 7.                                                         *)
LOD10Name == <<"G">> \o LODNames[2] \o LODNames[1]
LOD7Name == <<"G">> \o LODNames[8]
LODChildNames == {PlainName, LOD10Name, LOD7Name}

(* The names of n nodes of which at most one carries the name of a group. *)
OneGroupNames(n) ==
    { [i \in 1..n |-> IF i = g THEN GroupName ELSE PlainName] : g \in 0..n }

(* The surface ids: 0 or 1 on every node, -1 on every node, -1 on the     *)
(* root alone.                                                             *)
LODSurfaceIds(n) ==
    [1..n -> {0, 1}] \cup { [i \in 1..n |-> -1],
                            [i \in 1..n |-> IF i = 1 THEN -1 ELSE 1] }

LODModel(n, parent, rootName, names, surfaceIds) ==
    SceneModel(Numbered(Nodes(n, parent,
        [i \in 1..n |-> IF i = 1 THEN rootName ELSE names[i]], surfaceIds)))

InitSceneOf(lists) ==
    /\ rawMaterialModels \in lists
    /\ env \in [meshOpens : {TRUE}, materialFails : {{}}, sceneSaves : {TRUE}]
    /\ MeshIdle
    /\ MaterialIdle
    /\ SceneIdle

(* Two families for the walk of the tree: one transform varies, the level *)
(* names vary.                                                             *)
InitSceneTree ==
    /\ \E n \in 1..MaxNodes : \E parent \in Trees(n) :
          \/ \E names \in OneGroupNames(n), k \in 1..n,
                c \in TransformComponents, d \in TransformDeltas :
                  rawModel = TransformedModel(n, parent, names, k, c, d)
          \/ \E rootName \in {PlainName, GroupName}, names \in [2..n -> LODChildNames],
                surfaceIds \in LODSurfaceIds(n) :
                  rawModel = LODModel(n, parent, rootName, names, surfaceIds)
    /\ InitSceneOf({ << ScenePartition(SceneSurfaces[1], SceneMaterials[1]) >> })

(* Two more families: the surfaces and partitions vary, the names vary. *)
InitScene ==
    \/ InitSceneWith({PlainName}, {-1, 0, 1, 2}, ScenePartitionLists, BOOLEAN)
    \/ InitSceneWith({PlainName, GroupName, LOD1Name}, {-1, 0, 1},
                     { << ScenePartition(SceneSurfaces[1], SceneMaterials[1]) >> }, {TRUE})
    \/ InitSceneTree

NextScene ==
    \/ ExportMeshXML
    \/ ExportMeshXMLAbort

SpecScene == InitScene /\ [][NextScene]_vars

SpecSceneTree == InitSceneTree /\ [][NextScene]_vars

(* ExportMeshXML is one call that runs to its end once it is made. *)
SpecSceneLive == SpecSceneTree /\ WF_vars(NextScene)

----------------------------------------------------------------------------
(* The exporter as a whole. *)
Init == InitMesh \/ InitMaterial \/ InitScene

Next == NextMesh \/ NextMaterial \/ NextScene

Spec == Init /\ [][Next]_vars

----------------------------------------------------------------------------
(* Reading the mesh file back. *)

MeshHeaderFieldNames ==
    {"format", "numSubMeshs", "indexBufferSize", "indexBufferOffset",
     "vertexBufferSize", "vertexBufferOffset"}
SubMeshHeaderFieldNames ==
    {"szName", "minx", "miny", "minz", "maxx", "maxy", "maxz",
     "baseVertex", "firstIndex", "indexCount"}

IsMeshHeaderItem(w) == w.f \in MeshHeaderFieldNames
IsSubMeshHeaderItem(w) == w.f \in SubMeshHeaderFieldNames
IsIndexItem(w) == w.f = "index"
IsVertexItem(w) ==
    ~(IsMeshHeaderItem(w) \/ IsSubMeshHeaderItem(w) \/ IsIndexItem(w))

MeshHeaderItems == SelectSeq(file, IsMeshHeaderItem)
SubMeshHeaderItems(k) ==
    SelectSeq(file, LAMBDA w : IsSubMeshHeaderItem(w) /\ w.at = k)
IndexItems == SelectSeq(file, IsIndexItem)
VertexItems == SelectSeq(file, IsVertexItem)
VertexItemsAt(i) == SelectSeq(file, LAMBDA w : IsVertexItem(w) /\ w.at = i)

(* The byte at which the i-th item of the file begins. *)
OffsetOfItem(i) == SumSz(SubSeq(file, 1, i - 1))
(* The value of a field of the mesh header, and of submesh header k: the  *)
(* first item of the file that carries it.                                 *)
Field(name) == Head(SelectSeq(file, LAMBDA w : w.f = name)).v
SubField(k, name) == Head(SelectSeq(file, LAMBDA w : w.f = name /\ w.at = k)).v

HeaderWritten == pcMesh \in {"data", "aborted"} \/ (pcMesh = "done" /\ env.meshOpens)
MeshWritten == pcMesh = "done" /\ env.meshOpens

NumParts == Len(rawMaterialModels)
PartVerts(k) == GetVertexCount(rawMaterialModels[k + 1])
PartTris(k) == GetTriangleCount(rawMaterialModels[k + 1])

RECURSIVE VertsBefore(_)
VertsBefore(k) == IF k = 0 THEN 0 ELSE VertsBefore(k - 1) + PartVerts(k - 1)

(* The places of the index block that ExportMeshData filled in iteration k. *)
DataRange(k) ==
    bases[k + 1].baseIndex ..
        ((IF k + 1 < Len(bases) THEN bases[k + 2].baseIndex ELSE Len(indices)) - 1)

----------------------------------------------------------------------------
(* C1: every index written for submesh k lies in [B_k, B_k + vertexCount_k), *)
(* B_k being the number of vertices of the partitions before k; so every   *)
(* written index is below the total vertex count.                          *)
C1_IndexInRange ==
    MeshWritten =>
        LET written == IndexItems
            total == VertsBefore(NumParts)
        IN  /\ Len(written) = Len(indices)
            /\ \A k \in 0..(NumParts - 1) : \A j \in DataRange(k) :
                  /\ VertsBefore(k) <= written[j + 1].v
                  /\ written[j + 1].v < VertsBefore(k) + PartVerts(k)
            /\ \A i \in 1..Len(written) : written[i].v < total

(* A second submesh whose written indices reach its last vertex. *)
C1_Witness ==
    /\ MeshWritten
    /\ NumParts = 2
    /\ PartVerts(0) = 2 /\ PartTris(0) = 1
    /\ PartVerts(1) = 2 /\ PartTris(1) = 1
    /\ \E j \in DataRange(1) : IndexItems[j + 1].v = 3
    /\ \E j \in DataRange(1) : IndexItems[j + 1].v = 2

(* C2: the submesh index ranges of the header start at 0, follow one       *)
(* another without gap or overlap, hold 3 * triangleCount indices each,    *)
(* end within the index block, and are the places ExportMeshData filled    *)
(* for the same partition.                                                 *)
C2_IndexRanges ==
    MeshWritten =>
        /\ Len(bases) = NumParts
        /\ NumParts > 0 => SubField(0, "firstIndex") = 0
        /\ \A k \in 0..(NumParts - 1) :
              /\ SubField(k, "indexCount") = 3 * PartTris(k)
              /\ SubField(k, "firstIndex") + SubField(k, "indexCount") <= Len(IndexItems)
              /\ k + 1 < NumParts =>
                    SubField(k + 1, "firstIndex")
                        = SubField(k, "firstIndex") + SubField(k, "indexCount")
              /\ DataRange(k) = SubField(k, "firstIndex") ..
                    (SubField(k, "firstIndex") + SubField(k, "indexCount") - 1)

C2_Witness ==
    /\ MeshWritten
    /\ NumParts = 2
    /\ PartTris(0) = 1 /\ PartTris(1) = 1
    /\ SubField(1, "firstIndex") = 3
    /\ DataRange(1) = 3..5

(* C3: indexBufferOffset is the size of the mesh header plus numSubMeshes  *)
(* submesh headers and is the byte at which the index block begins;        *)
(* vertexBufferOffset = indexBufferOffset + indexBufferSize is the byte at *)
(* which the vertex block begins; indexBufferSize is 4 * the sum of the    *)
(* index counts, the bytes written in the index block.                     *)
RECURSIVE SumIndexCount(_)
SumIndexCount(k) ==
    IF k = 0 THEN 0 ELSE SumIndexCount(k - 1) + SubField(k - 1, "indexCount")

HeaderItemCount == Len(MeshHeaderItems) + Len(SelectSeq(file, IsSubMeshHeaderItem))

C3_Offsets ==
    MeshWritten =>
        /\ LET h == HeaderItemCount
               n == Len(IndexItems)
           IN  \A i \in 1..Len(file) :
                 /\ i <= h => IsMeshHeaderItem(file[i]) \/ IsSubMeshHeaderItem(file[i])
                 /\ (i > h /\ i <= h + n) => IsIndexItem(file[i])
                 /\ i > h + n => IsVertexItem(file[i])
        /\ Field("numSubMeshs") = NumParts
        /\ \A k \in 0..(NumParts - 1) :
              Field("indexBufferOffset")
                  = SumSz(MeshHeaderItems) + NumParts * SumSz(SubMeshHeaderItems(k))
        /\ Field("indexBufferOffset") = OffsetOfItem(HeaderItemCount + 1)
        /\ Field("vertexBufferOffset")
              = Field("indexBufferOffset") + Field("indexBufferSize")
        /\ Field("vertexBufferOffset")
              = OffsetOfItem(HeaderItemCount + Len(IndexItems) + 1)
        /\ Field("indexBufferSize") = 4 * SumIndexCount(NumParts)
        /\ Field("indexBufferSize") = SumSz(IndexItems)

C3_Witness ==
    /\ MeshWritten
    /\ NumParts = 2
    /\ Len(IndexItems) = 6
    /\ Len(VertexItems) > 0
    /\ file[HeaderItemCount + 1].f = "index"
    /\ file[HeaderItemCount + 7].f = "position.x"

(* C4: the bytes written for one vertex are GetVertexSize(F), the sum over *)
(* the enabled attributes of 12, 12, 12, 12 (COLOR without w), 8, 8, 16,   *)
(* 16; the vertex block holds (sum of the vertex counts) * stride(F) bytes *)
(* and that is the header's vertexBufferSize.                              *)
AttributeBytes ==
    [a \in AttributeSet |->
        CASE a = "POSITION" -> 12 [] a = "NORMAL" -> 12 [] a = "BINORMAL" -> 12
          [] a = "COLOR" -> 12 [] a = "UV0" -> 8 [] a = "UV1" -> 8
          [] a = "JOINT_INDICES" -> 16 [] a = "JOINT_WEIGHTS" -> 16]

RECURSIVE Stride(_)
Stride(F) ==
    IF F = {} THEN 0
    ELSE LET a == CHOOSE x \in F : TRUE IN AttributeBytes[a] + Stride(F \ {a})

C4_VertexStride ==
    MeshWritten =>
        LET F == GetVertexAttributes(rawModel) IN
        /\ \A i \in 0..(VertsBefore(NumParts) - 1) :
              SumSz(VertexItemsAt(i)) = Stride(F)
        /\ \A i \in 1..Len(file) : file[i].f # "color.w"
        /\ SumSz(VertexItems) = VertsBefore(NumParts) * Stride(F)
        /\ Field("vertexBufferSize") = SumSz(VertexItems)

C4_Witness ==
    /\ MeshWritten
    /\ GetVertexAttributes(rawModel) = {"POSITION", "COLOR", "UV1", "JOINT_INDICES"}
    /\ NumParts = 2
    /\ VertsBefore(NumParts) = 4
    /\ SumSz(VertexItems) = 4 * 48

(* C5: every POSITION written in the slice of submesh k of the vertex      *)
(* block lies in the box of submesh header k; a partition with a vertex    *)
(* has min <= max on every axis, one without keeps the empty box (min the  *)
(* largest value, max the smallest).                                       *)
Axes == << <<"position.x", "minx", "maxx">>,
           <<"position.y", "miny", "maxy">>,
           <<"position.z", "minz", "maxz">> >>

C5_BoundsSound ==
    /\ HeaderWritten =>
         \A k \in 0..(NumParts - 1) : \A a \in 1..3 :
            IF PartVerts(k) = 0
              THEN /\ SubField(k, Axes[a][2]) = FLT_MAX
                   /\ SubField(k, Axes[a][3]) = 0 - FLT_MAX
              ELSE SubField(k, Axes[a][2]) <= SubField(k, Axes[a][3])
    /\ MeshWritten =>
         \A k \in 0..(NumParts - 1) : \A a \in 1..3 :
            LET min == SubField(k, Axes[a][2])
                max == SubField(k, Axes[a][3])
                first == VertsBefore(k)
            IN  \A i \in 1..Len(file) :
                  (/\ file[i].f = Axes[a][1]
                   /\ first <= file[i].at
                   /\ file[i].at < first + PartVerts(k))
                  => (min <= file[i].v /\ file[i].v <= max)

(* A submesh after an empty one, with two different positions that the     *)
(* optimizer has exchanged.                                                *)
C5_Witness ==
    /\ MeshWritten
    /\ NumParts = 2
    /\ PartVerts(0) = 0
    /\ PartVerts(1) = 2
    /\ SubField(0, "minx") = FLT_MAX
    /\ SubField(1, "minz") < SubField(1, "maxz")
    /\ vertices[1].id = 1
    /\ \E i \in 1..Len(file) : file[i].f = "position.z" /\ file[i].at = 1

(* C6 as claimed: a submesh header record is nine 4-byte fields, 36 bytes, *)
(* and record k begins at byte 24 + 36 * k.                                *)
NineFields ==
    <<"minx", "miny", "minz", "maxx", "maxy", "maxz",
      "baseVertex", "firstIndex", "indexCount">>

RECURSIVE FirstItemFrom(_, _)
FirstItemFrom(k, i) ==
    IF IsSubMeshHeaderItem(file[i]) /\ file[i].at = k THEN i
    ELSE FirstItemFrom(k, i + 1)

FirstItemOf(k) == FirstItemFrom(k, 1)

C6_NineFieldRecord ==
    HeaderWritten =>
        \A k \in 0..(NumParts - 1) :
          /\ [i \in 1..Len(SubMeshHeaderItems(k)) |-> SubMeshHeaderItems(k)[i].f]
                = NineFields
          /\ \A i \in 1..Len(SubMeshHeaderItems(k)) : SubMeshHeaderItems(k)[i].sz = 4
          /\ SumSz(SubMeshHeaderItems(k)) = 36
          /\ SubField(k, "baseVertex") = 0
          /\ OffsetOfItem(FirstItemOf(k)) = 24 + 36 * k

(* C6 as amended: a submesh header record is the 260-byte name followed by *)
(* the nine 4-byte fields, 296 bytes, baseVertex 0; the six-field mesh     *)
(* header comes first and record k begins at byte 24 + 296 * k.            *)
C6_NamedRecord ==
    HeaderWritten =>
        /\ [i \in 1..6 |-> file[i].f]
              = <<"format", "numSubMeshs", "indexBufferSize", "indexBufferOffset",
                  "vertexBufferSize", "vertexBufferOffset">>
        /\ \A i \in 1..6 : file[i].sz = 4
        /\ \A k \in 0..(NumParts - 1) :
             LET items == SubMeshHeaderItems(k)
                 first == FirstItemOf(k)
             IN  /\ [i \in 1..Len(items) |-> items[i].f] = <<"szName">> \o NineFields
                 /\ items[1].sz = 260
                 /\ \A i \in 2..Len(items) : items[i].sz = 4
                 /\ SumSz(items) = 296
                 /\ SubField(k, "baseVertex") = 0
                 /\ OffsetOfItem(first) = 24 + 296 * k
                 /\ \A i \in 1..Len(items) : file[first + i - 1] = items[i]

C6_Witness ==
    /\ MeshWritten
    /\ NumParts = 2
    /\ OffsetOfItem(FirstItemOf(1)) = 320
    /\ file[FirstItemOf(1)].f = "szName"
    /\ SubField(1, "firstIndex") = 3

(* C7: an export whose target file cannot be created returns false; true   *)
(* is returned only if the file, or every file, was written.               *)
C7_FailureReported ==
    /\ (pcMesh = "done" /\ ~env.meshOpens) => meshResult = "false"
    /\ meshResult = "true" => (env.meshOpens /\ file # <<>>)
    /\ (materialResult # "none" /\ env.materialFails # {}) => materialResult = "false"
    /\ materialResult = "true" =>
          \A i \in 1..Len(materialFiles) : materialFiles[i].written
    /\ (pcScene = "done" /\ ~env.sceneSaves) => sceneResult = "false"
    /\ sceneResult = "true" => sceneFile.written

----------------------------------------------------------------------------
(* Reading the material files back. *)
UsageOrder ==
    <<"AMBIENT", "DIFFUSE", "NORMAL", "SPECULAR", "SHININESS", "EMISSIVE",
      "REFLECTION", "ALBEDO", "OCCLUSION", "ROUGHNESS", "METALLIC">>

SamplerName ==
    [u \in RawTextureUsage |->
        CASE u = "AMBIENT" -> "texAmbient" [] u = "DIFFUSE" -> "texAlbedo"
          [] u = "NORMAL" -> "texNormal" [] u = "SPECULAR" -> "texSpecular"
          [] u = "SHININESS" -> "texShininess" [] u = "EMISSIVE" -> "texEmissive"
          [] u = "REFLECTION" -> "texReflection" [] u = "ALBEDO" -> "texAlbedo"
          [] u = "OCCLUSION" -> "texOcclusion" [] u = "ROUGHNESS" -> "texRoughness"
          [] u = "METALLIC" -> "texMetallic"]

(* The Texture2D children of the Pass element of a material file. *)
TexturesOf(f) == ChildrenTagged(f.doc.children[1], "Texture2D")
TextureNamesOf(f) == [i \in 1..Len(TexturesOf(f)) |-> Attribute(TexturesOf(f)[i], "name")]

WrittenMaterials ==
    { i \in 1..Len(materialFiles) : materialFiles[i].written }

(* The file names of the two textures of TextureCatalog, without directory. *)
CatalogFileNames == << <<"a", ".", "p">>, <<"b", ".", "j">> >>

----------------------------------------------------------------------------
(* Reading the scene document back. *)
SceneWritten == pcScene = "done" /\ sceneFile.written

DrawsOf(doc) == SelectSeq(AllElements(doc), LAMBDA e : e.tag = "Draw")

(* Every surface id of a node is 0 or the id of a surface of the model. *)
SurfacesResolve ==
    \A i \in 1..Len(rawModel.nodes) :
        \/ rawModel.nodes[i].surfaceId = 0
        \/ GetSurfaceById(rawModel, rawModel.nodes[i].surfaceId) >= 0

(* C9: every Draw has an index k below the number of submeshes, partition  *)
(* k being the partition of the node's surface, and names as material the  *)
(* material of partition k followed by ".material", without directory: a   *)
(* file that the material writer produces.                                 *)
C9_DrawResolves ==
    (SceneWritten /\ SurfacesResolve) =>
        \A i \in 1..Len(DrawsOf(sceneFile.doc)) :
            LET draw == DrawsOf(sceneFile.doc)[i]
                k == Attribute(draw, "index")
            IN  /\ k < NumParts
                /\ GetSurface(rawMaterialModels[k + 1], 0).name = Attribute(draw, "name")
                /\ Attribute(draw, "material")
                      = <<GetMaterial(rawMaterialModels[k + 1], 0).name, ".material">>
                /\ \E m \in 1..GetMaterialCount(rawModel) :
                      GetMaterialFileName("out/", GetMaterial(rawModel, m - 1))
                          = <<"out/">> \o Attribute(draw, "material")

(* C10: a node whose surface id is 0 or -1 adds no Draw, as a Node and as  *)
(* the child of a LOD group alike; every other node adds one.              *)
C10_SentinelNoDraw ==
    SceneWritten =>
        Len(DrawsOf(sceneFile.doc))
            = Cardinality({ i \in 1..Len(rawModel.nodes) :
                                rawModel.nodes[i].surfaceId \notin {0, -1} })

----------------------------------------------------------------------------
(* Reading the scene document back. *)

NodeCount == Len(rawModel.nodes)
NodeAt(i) == rawModel.nodes[i]
NodeOf(id) == GetNode(rawModel, GetNodeById(rawModel, id))
ChildOf(node, i) == NodeOf(node.childIds[i])

Contains(name, part) ==
    \E i \in 0..Len(name) : \E j \in i..Len(name) : SubSeq(name, i + 1, j) = part

Within(x, target) == Fabs(x - target) <= Tolerance

NearIdentity(node) ==
    /\ \A a \in 1..3 : Within(node.scale[a], FloatOne)
    /\ \A a \in 1..3 : Within(node.translation[a], 0)
    /\ Within(node.rotation[1], FloatOne)
    /\ \A a \in 2..4 : Within(node.rotation[a], 0)

(* The recognition rule as it is stated. *)
Recognized(node) ==
    /\ Contains(node.name, <<"_", "L", "O", "D", "G", "r", "o", "u", "p">>)
    /\ Len(node.childIds) >= 1
    /\ \A i \in 1..Len(node.childIds) :
          /\ Len(ChildOf(node, i).childIds) = 0
          /\ NearIdentity(ChildOf(node, i))

(* The model in which the children of node i carry another name and       *)
(* surface id, and node i itself another transform and surface id.        *)
Disguised(i, name, surfaceId) ==
    LET ids == { NodeAt(i).childIds[c] : c \in 1..Len(NodeAt(i).childIds) }
    IN  [rawModel EXCEPT !.nodes =
            [j \in 1..NodeCount |->
                IF NodeAt(j).id \in ids
                  THEN [NodeAt(j) EXCEPT !.name = name, !.surfaceId = surfaceId]
                ELSE IF j = i
                  THEN [NodeAt(j) EXCEPT !.surfaceId = surfaceId,
                                         !.translation = <<FloatOne, 0, 0 - FloatOne>>,
                                         !.rotation = <<0, FloatOne, 0, 0>>,
                                         !.scale = <<2 * FloatOne, 0, FloatOne>>]
                ELSE NodeAt(j)]]

NodeChildren(e) == ChildrenTagged(e, "Node")
RootElement == NodeChildren(sceneFile.doc)[1]

(* C11: IsNodeLODGrpup(node) is true exactly when the name of the node     *)
(* contains "_LODGroup", the node has a child, and every child has no      *)
(* child and has scale within 0.0001 of 1, translation within 0.0001 of 0  *)
(* and rotation within 0.0001 of (w=1, x=0, y=0, z=0); the names and       *)
(* surface ids of the children and the transform and surface of the node   *)
(* itself do not change the result.                                        *)
C11_Recognition ==
    \A i \in 1..NodeCount :
        /\ IsNodeLODGrpup(NodeAt(i), rawModel) <=> Recognized(NodeAt(i))
        /\ \A name \in {PlainName, GroupName, LOD1Name} : \A surfaceId \in {0, 2} :
              LET model == Disguised(i, name, surfaceId)
              IN  IsNodeLODGrpup(model.nodes[i], model)
                      <=> IsNodeLODGrpup(NodeAt(i), rawModel)

(* A group that is recognized with the scale of a child on the tolerance,  *)
(* written without a Node below it.                                        *)
C11_Witness ==
    /\ SceneWritten
    /\ NodeCount = 3
    /\ IsNodeLODGrpup(NodeAt(1), rawModel)
    /\ Len(NodeAt(1).childIds) = 2
    /\ ChildOf(NodeAt(1), 2).scale[2] = FloatOne + Tolerance
    /\ NodeChildren(RootElement) = <<>>

(* The Node element of a node none of whose ancestors is a group: the      *)
(* element at the place of the node below the element of its parent.       *)
ParentIndex(id) ==
    CHOOSE j \in 1..NodeCount :
        \E c \in 1..Len(NodeAt(j).childIds) : NodeAt(j).childIds[c] = id
PlaceOf(id) ==
    CHOOSE c \in 1..Len(NodeAt(ParentIndex(id)).childIds) :
        NodeAt(ParentIndex(id)).childIds[c] = id

RECURSIVE ElementOf(_)
ElementOf(id) ==
    IF id = GetRootNode(rawModel) THEN RootElement
    ELSE NodeChildren(ElementOf(NodeAt(ParentIndex(id)).id))[PlaceOf(id)]

(* The level of a name: the first k of 0..7 with "_LOD<k>" in the name,    *)
(* -1 without any.                                                         *)
LevelName(k) ==
    <<"_", "L", "O", "D">> \o << <<"0", "1", "2", "3", "4", "5", "6", "7">>[k + 1] >>
Level(name) ==
    IF \E k \in 0..7 : Contains(name, LevelName(k))
      THEN CHOOSE k \in 0..7 :
              /\ Contains(name, LevelName(k))
              /\ \A j \in 0..(k - 1) : ~Contains(name, LevelName(j))
      ELSE -1

(* The lod of every Draw child of an element, -1 for a Draw without lod. *)
LodsOf(e) ==
    LET draws == ChildrenTagged(e, "Draw")
    IN  [i \in 1..Len(draws) |->
            IF HasAttribute(draws[i], "lod") THEN Attribute(draws[i], "lod") ELSE -1]

(* The levels of the children of a node that pass Drawn, in child order. *)
LevelsOf(node, Drawn(_)) ==
    LET drawn == SelectSeq([i \in 1..Len(node.childIds) |-> ChildOf(node, i)], Drawn)
    IN  [i \in 1..Len(drawn) |-> Level(drawn[i].name)]

NoSentinelMinusOne == \A i \in 1..NodeCount : NodeAt(i).surfaceId # -1

(* C12 as claimed: the Node element of a recognized group has no Node      *)
(* child; its Draw children are its own Draw without lod if the group      *)
(* carries a surface, then one Draw for each child, in child order, with   *)
(* the level of the child's name as lod, without lod if the name has none. *)
(* Stated for the models in which no surface id is -1.                     *)
C12_OneDrawPerChild ==
    (SceneWritten /\ NoSentinelMinusOne) =>
        \A g \in 1..NodeCount :
            Recognized(NodeAt(g)) =>
                /\ NodeChildren(ElementOf(NodeAt(g).id)) = <<>>
                /\ LodsOf(ElementOf(NodeAt(g).id))
                      = (IF NodeAt(g).surfaceId # 0 THEN <<-1>> ELSE <<>>)
                          \o LevelsOf(NodeAt(g), LAMBDA child : TRUE)

(* C12 as amended: the same with a Draw for the children whose surface id  *)
(* is not 0 only, and the own Draw when the group's surface id is not 0.   *)
C12_DrawPerSurfacedChild ==
    SceneWritten =>
        \A g \in 1..NodeCount :
            Recognized(NodeAt(g)) =>
                /\ NodeChildren(ElementOf(NodeAt(g).id)) = <<>>
                /\ Len(ElementOf(NodeAt(g).id).children)
                      = Len(LodsOf(ElementOf(NodeAt(g).id)))
                /\ LodsOf(ElementOf(NodeAt(g).id))
                      = (IF NodeAt(g).surfaceId # 0 THEN <<-1>> ELSE <<>>)
                          \o LevelsOf(NodeAt(g), LAMBDA child : child.surfaceId # 0)

(* A group with a surface below the root, its first child named with the   *)
(* levels 1 and 0, written as three Draws: no lod, lod 0, lod 7.           *)
C12_Witness ==
    /\ SceneWritten
    /\ NodeCount = 3
    /\ Recognized(NodeAt(1))
    /\ ChildOf(NodeAt(1), 1).name = LOD10Name
    /\ ChildOf(NodeAt(1), 2).name = LOD7Name
    /\ LodsOf(RootElement) = <<-1, 0, 7>>

(* The Node elements below an element, each with the translation written   *)
(* on it, and the tree of the nodes that the walk from a node visits.      *)
RECURSIVE Skeleton(_)
Skeleton(e) ==
    [translation |-> Attribute(e, "translation"),
     nodes |-> [i \in 1..Len(NodeChildren(e)) |-> Skeleton(NodeChildren(e)[i])]]

RECURSIVE Mirror(_)
Mirror(id) ==
    [translation |-> NodeOf(id).translation,
     nodes |-> IF Recognized(NodeOf(id)) THEN <<>>
               ELSE [i \in 1..Len(NodeOf(id).childIds) |->
                        Mirror(NodeOf(id).childIds[i])]]

RECURSIVE Reachable(_)
Reachable(id) ==
    {id} \cup UNION { Reachable(NodeOf(id).childIds[i]) :
                        i \in 1..Len(NodeOf(id).childIds) }

(* The nodes that get a Node element: those the root reaches, but for the  *)
(* children of a recognized group.                                         *)
Mirrored ==
    { id \in Reachable(GetRootNode(rawModel)) :
        id = GetRootNode(rawModel) \/ ~Recognized(NodeAt(ParentIndex(id))) }

NodeElements(doc) == SelectSeq(AllElements(doc), LAMBDA e : e.tag = "Node")

TreeMirrored ==
    SceneWritten =>
        /\ sceneFile.doc.tag = "Mesh"
        /\ Len(NodeChildren(sceneFile.doc)) = 1
        /\ Skeleton(RootElement) = Mirror(GetRootNode(rawModel))
        /\ Len(NodeElements(sceneFile.doc)) = Cardinality(Mirrored)

(* C13: over a forest of nodes the call of ExportMeshXML comes to its end, *)
(* and the document it writes holds one Node element for every node that   *)
(* the root reaches and that is not the child of a recognized group, and   *)
(* no other; the Node children of the element of a node are the elements   *)
(* of its children, in child order, and the element of the root is the     *)
(* only Node child of Mesh.                                                *)
C13_TreeMirrored == []TreeMirrored /\ <>(pcScene # "idle")

(* A root above a recognized group above a leaf, written as two Nodes. *)
C13_Witness ==
    /\ SceneWritten
    /\ NodeCount = 3
    /\ ~Recognized(NodeAt(1))
    /\ NodeAt(1).childIds = <<NodeAt(2).id>>
    /\ Recognized(NodeAt(2))
    /\ Len(NodeElements(sceneFile.doc)) = 2
    /\ Skeleton(RootElement).nodes[1].translation = NodeAt(2).translation
    /\ NodeAt(2).translation # NodeAt(1).translation

====
